---------------------------- MODULE Spec2Model ----------------------------
(***************************************************************************)
(* Model of the package-creator repository: the release scripts            *)
(* (scripts/release.mjs with dirty-tree handling and the simple one), the  *)
(* version bump function, and the package.json field-merge mutators of     *)
(* the scaffold.                                                           *)
(*                                                                         *)
(* A JavaScript string is a sequence of one-character strings, so that     *)
(* trim, toLowerCase, split, parseInt and includes are computed the way    *)
(* the runtime computes them.  An optional value (undefined / absent) is   *)
(* a sequence of length 0 or 1: <<>> is undefined, <<v>> is the value v.   *)
(***************************************************************************)
EXTENDS Integers, Sequences, FiniteSets, TLC

(***************************************************************************)
(* Bounds of the model.                                                    *)
(***************************************************************************)
MaxComponent == 11
MaxVersionLen == 4
MaxEdits == 2

(***************************************************************************)
(* String primitives of the JavaScript runtime.                            *)
(***************************************************************************)
IsSpace(c) == c \in {" ", "\n", "\t"}

IsDigit(c) == c \in {"0", "1", "2", "3", "4", "5", "6", "7", "8", "9"}

DigitVal(c) ==
  CASE c = "0" -> 0 [] c = "1" -> 1 [] c = "2" -> 2 [] c = "3" -> 3
    [] c = "4" -> 4 [] c = "5" -> 5 [] c = "6" -> 6 [] c = "7" -> 7
    [] c = "8" -> 8 [] c = "9" -> 9

DigitChar(d) ==
  CASE d = 0 -> "0" [] d = 1 -> "1" [] d = 2 -> "2" [] d = 3 -> "3"
    [] d = 4 -> "4" [] d = 5 -> "5" [] d = 6 -> "6" [] d = 7 -> "7"
    [] d = 8 -> "8" [] d = 9 -> "9"

LowerChar(c) ==
  CASE c = "A" -> "a" [] c = "B" -> "b" [] c = "C" -> "c" [] c = "E" -> "e"
    [] c = "H" -> "h" [] c = "I" -> "i" [] c = "J" -> "j" [] c = "M" -> "m"
    [] c = "N" -> "n" [] c = "O" -> "o" [] c = "P" -> "p" [] c = "R" -> "r"
    [] c = "S" -> "s" [] c = "T" -> "t" [] c = "Y" -> "y"
    [] OTHER -> c

\* String.prototype.toLowerCase
toLowerCase(s) == [i \in 1..Len(s) |-> LowerChar(s[i])]

RECURSIVE trimStart(_)
trimStart(s) ==
  IF s = <<>> THEN <<>>
  ELSE IF IsSpace(Head(s)) THEN trimStart(Tail(s)) ELSE s

RECURSIVE trimEnd(_)
trimEnd(s) ==
  IF s = <<>> THEN <<>>
  ELSE IF IsSpace(s[Len(s)]) THEN trimEnd(SubSeq(s, 1, Len(s) - 1)) ELSE s

\* String.prototype.trim
trim(s) == trimEnd(trimStart(s))

\* String.prototype.split with a one-character separator: "" splits to [""].
RECURSIVE split(_, _)
split(s, sep) ==
  IF \E i \in 1..Len(s) : s[i] = sep
  THEN LET i == CHOOSE k \in 1..Len(s) :
                  s[k] = sep /\ \A j \in 1..(k - 1) : s[j] # sep
       IN  <<SubSeq(s, 1, i - 1)>> \o split(SubSeq(s, i + 1, Len(s)), sep)
  ELSE <<s>>

\* Array.prototype.join
RECURSIVE join(_, _)
join(parts, sep) ==
  IF parts = <<>> THEN <<>>
  ELSE IF Len(parts) = 1 THEN parts[1]
  ELSE parts[1] \o <<sep>> \o join(Tail(parts), sep)

\* String.prototype.includes
includes(s, sub) ==
  \E i \in 0..(Len(s) - Len(sub)) : SubSeq(s, i + 1, i + Len(sub)) = sub

RECURSIVE DigitsValue(_, _)
DigitsValue(s, acc) ==
  IF s = <<>> \/ ~IsDigit(Head(s)) THEN acc
  ELSE DigitsValue(Tail(s), acc * 10 + DigitVal(Head(s)))

\* Number.parseInt(v, 10): leading white space is skipped, one sign is read,
\* then the longest prefix of decimal digits; no digit gives NaN, written <<>>.
parseInt(v) ==
  LET t == trimStart(v)
      neg == t # <<>> /\ Head(t) = "-"
      u == IF t # <<>> /\ Head(t) \in {"-", "+"} THEN Tail(t) ELSE t
  IN  IF u = <<>> \/ ~IsDigit(Head(u)) THEN <<>>
      ELSE <<IF neg THEN 0 - DigitsValue(u, 0) ELSE DigitsValue(u, 0)>>

\* Number.isFinite on a parseInt result
isFinite(n) == n # <<>>

RECURSIVE NatToString(_)
NatToString(n) ==
  IF n < 10 THEN <<DigitChar(n)>>
  ELSE NatToString(n \div 10) \o <<DigitChar(n % 10)>>

\* Number to string, as a template literal or Array.prototype.join renders it.
NumberToString(n) ==
  IF n = <<>> THEN <<"N", "a", "N">>
  ELSE IF n[1] < 0 THEN <<"-">> \o NatToString(0 - n[1])
  ELSE NatToString(n[1])

(***************************************************************************)
(* String literals of the source.                                          *)
(***************************************************************************)
S_patch == <<"p", "a", "t", "c", "h">>
S_minor == <<"m", "i", "n", "o", "r">>
S_major == <<"m", "a", "j", "o", "r">>
S_000 == <<"0", ".", "0", ".", "0">>

ReleaseKinds == {S_patch, S_minor, S_major}
S_chorePrep == <<"c", "h", "o", "r", "e", ":", " ", "r", "e", "l", "e", "a",
  "s", "e", " ", "p", "r", "e", "p">>
S_choreRelease == <<"c", "h", "o", "r", "e", "(", "r", "e", "l", "e", "a",
  "s", "e", ")", ":", " ", "v">>
S_autoStash == <<"r", "e", "l", "e", "a", "s", "e", ":", " ", "a", "u", "t",
  "o", "-", "s", "t", "a", "s", "h">>
S_c == <<"c">>
S_commit == <<"c", "o", "m", "m", "i", "t">>
S_s == <<"s">>
S_stash == <<"s", "t", "a", "s", "h">>
S_y == <<"y">>
S_yes == <<"y", "e", "s">>
S_v == <<"v">>
S_objectObject == <<"[", "o", "b", "j", "e", "c", "t", " ", "O", "b", "j",
  "e", "c", "t", "]">>
K_version == <<"v", "e", "r", "s", "i", "o", "n">>
K_name == <<"n", "a", "m", "e">>
K_type == <<"t", "y", "p", "e">>
K_main == <<"m", "a", "i", "n">>
K_bin == <<"b", "i", "n">>
K_scripts == <<"s", "c", "r", "i", "p", "t", "s">>
K_prepublishOnly == <<"p", "r", "e", "p", "u", "b", "l", "i", "s", "h", "O",
  "n", "l", "y">>
K_publish == <<"p", "u", "b", "l", "i", "s", "h">>
K_clean == <<"c", "l", "e", "a", "n">>
K_build == <<"b", "u", "i", "l", "d">>
K_prepare == <<"p", "r", "e", "p", "a", "r", "e">>
K_prettier == <<"p", "r", "e", "t", "t", "i", "e", "r">>
K_lint == <<"l", "i", "n", "t">>
K_test == <<"t", "e", "s", "t">>
K_release == <<"r", "e", "l", "e", "a", "s", "e">>
S_module == <<"m", "o", "d", "u", "l", "e">>
S_indexTs == <<"i", "n", "d", "e", "x", ".", "t", "s">>
S_myCli == <<"m", "y", "-", "c", "l", "i">>
S_myPackage == <<"m", "y", "-", "p", "a", "c", "k", "a", "g", "e">>
S_hookPath == <<"s", "c", "r", "i", "p", "t", "s", "/", "u", "p", "d", "a",
  "t", "e", "-", "v", "e", "r", "s", "i", "o", "n", ".", "m", "j", "s">>
S_node == <<"n", "o", "d", "e", " ">>
S_andAnd == <<" ", "&", "&", " ">>
S_npmPublish == <<"n", "p", "m", " ", "p", "u", "b", "l", "i", "s", "h">>
S_rmDist == <<"r", "m", " ", "-", "r", "f", " ", "d", "i", "s", "t">>
S_tsc == <<"t", "s", "c">>
S_npmRunBuild == <<"n", "p", "m", " ", "r", "u", "n", " ", "b", "u", "i",
  "l", "d">>
S_prettierCmd == <<"p", "r", "e", "t", "t", "i", "e", "r", " ", "-", "-",
  "w", "r", "i", "t", "e", " ", ".">>
S_eslint == <<"e", "s", "l", "i", "n", "t", " ", ".">>
S_testCmd == <<"e", "c", "h", "o", " ", "\"", "E", "r", "r", "o", "r", ":",
  " ", "n", "o", " ", "t", "e", "s", "t", " ", "s", "p", "e", "c", "i", "f",
  "i", "e", "d", "\"", " ", "&", "&", " ", "e", "x", "i", "t", " ", "1">>
S_tsNode == <<"n", "o", "d", "e", " ", "-", "-", "l", "o", "a", "d", "e",
  "r", " ", "t", "s", "-", "n", "o", "d", "e", "/", "e", "s", "m", " ", "u",
  "t", "i", "l", "s", "/", "u", "t", "i", "l", "s", ".", "t", "s">>
S_releaseCmd == <<"n", "o", "d", "e", " ", "s", "c", "r", "i", "p", "t",
  "s", "/", "r", "e", "l", "e", "a", "s", "e", ".", "m", "j", "s">>

(***************************************************************************)
(* bumpVersionString of scripts/release.mjs.  version is optional.         *)
(***************************************************************************)
\* Array destructuring with default 0: the default applies to a missing
\* element only, a NaN element stays NaN.
PartOrDefault(parts, i) == IF i <= Len(parts) THEN parts[i] ELSE <<0>>

\* A slip of the bump rule: the minor bump forgets to reset patch.
bumpRule_NoReset(major, minor, patch, releaseType) ==
  IF releaseType = S_major THEN <<major + 1, 0, 0>>
  ELSE IF releaseType = S_minor THEN <<major, minor + 1, patch>>
  ELSE <<major, minor, patch + 1>>

bumpRule(major, minor, patch, releaseType) ==
  IF releaseType = S_major THEN <<major + 1, 0, 0>>
  ELSE IF releaseType = S_minor THEN <<major, minor + 1, 0>>
  ELSE <<major, minor, patch + 1>>

bumpVersionString(version, releaseType) ==
  LET str == IF version = <<>> THEN S_000 ELSE version[1]
      raw == split(str, ".")
      parts == [i \in 1..Len(raw) |-> parseInt(raw[i])]
      p1 == PartOrDefault(parts, 1)
      p2 == PartOrDefault(parts, 2)
      p3 == PartOrDefault(parts, 3)
      major == IF isFinite(p1) THEN p1[1] ELSE 0
      minor == IF isFinite(p2) THEN p2[1] ELSE 0
      patch == IF isFinite(p3) THEN p3[1] ELSE 0
      next == bumpRule(major, minor, patch, releaseType)
  IN  NumberToString(<<next[1]>>) \o <<".">> \o NumberToString(<<next[2]>>)
        \o <<".">> \o NumberToString(<<next[3]>>)

\* bumpVersion of utils/utils.ts and of the generated
\* scripts/update-version.mjs: the next pkg.version.  The defaults of the
\* destructuring apply to missing elements only, a NaN major or minor is
\* joined as it is, and a patch that is not finite becomes 0.
bumpVersion(version) ==
  LET str == IF version = <<>> THEN S_000 ELSE version[1]
      raw == split(str, ".")
      parts == [i \in 1..Len(raw) |-> parseInt(raw[i])]
      major == PartOrDefault(parts, 1)
      minor == PartOrDefault(parts, 2)
      patch == PartOrDefault(parts, 3)
      nextPatch == IF isFinite(patch) THEN <<patch[1] + 1>> ELSE <<0>>
  IN  NumberToString(major) \o <<".">> \o NumberToString(minor)
        \o <<".">> \o NumberToString(nextPatch)

(***************************************************************************)
(* JSON values and the package.json file.                                  *)
(*                                                                         *)
(* A value is a record [t, s, e]: a string (t = "str", characters s), null *)
(* (t = "null") or an object (t = "obj", entries e).  An object's entries  *)
(* are a sequence of [k, v] in insertion order, which is the order         *)
(* JSON.parse builds and JSON.stringify emits.  A file is [fmt, obj]: fmt  *)
(* is "pretty2" for the exact text JSON.stringify(obj, null, 2) + '\n',    *)
(* "other" for any other layout of the same data, "invalid" for text that  *)
(* is not JSON.  A missing file is <<>>, an existing one <<file>>.         *)
(***************************************************************************)
StrVal(s) == [t |-> "str", s |-> s, e |-> <<>>]
NullVal == [t |-> "null", s |-> <<>>, e |-> <<>>]
ObjVal(entries) == [t |-> "obj", s |-> <<>>, e |-> entries]

HasKey(obj, k) == \E i \in 1..Len(obj) : obj[i].k = k

\* obj[k]: <<>> when the property is missing (undefined)
Get(obj, k) ==
  IF HasKey(obj, k)
  THEN <<obj[CHOOSE i \in 1..Len(obj) : obj[i].k = k].v>>
  ELSE <<>>

\* obj[k] = v: an existing property keeps its place, a new one goes last
Set(obj, k, v) ==
  IF HasKey(obj, k)
  THEN [i \in 1..Len(obj) |-> IF obj[i].k = k THEN [k |-> k, v |-> v] ELSE obj[i]]
  ELSE Append(obj, [k |-> k, v |-> v])

\* x ?? ... takes the right side for undefined and null
IsNullish(x) == x = <<>> \/ x[1].t = "null"

\* !x is true for undefined, null and the empty string
IsTruthy(x) == x # <<>> /\ x[1].t # "null" /\ ~(x[1].t = "str" /\ x[1].s = <<>>)

\* JSON.parse throws on text that is not JSON
CanParse(file) == file.fmt # "invalid"

JSON_parse(file) == file.obj

\* JSON.stringify(pkg, null, 2) + '\n'
JSON_stringify(obj) == [fmt |-> "pretty2", obj |-> obj]

(***************************************************************************)
(* scripts/release.mjs (dirty-tree handling) and the simple release        *)
(* script: the decisions of main and ensureCleanGitWorkingTree.            *)
(***************************************************************************)
\* (await rl.question(...)).trim().toLowerCase()
normalizeAnswer(raw) == toLowerCase(trim(raw))

\* raw === '' ? 'patch' : raw
defaultReleaseType(raw) == IF raw = <<>> THEN S_patch ELSE raw

\* A slip: the validation accepts every release type.
isValidReleaseType_Any(releaseType) == TRUE

\* ['patch', 'minor', 'major'].includes(releaseType)
isValidReleaseType(releaseType) == releaseType \in ReleaseKinds

\* A slip: the status output is tested without trim().
isDirty_NoTrim(stdout) == stdout # <<>>

\* const dirty = stdout.trim(); if (!dirty) return { stashed: false }
isDirty(stdout) == trim(stdout) # <<>>

\* A slip: an unknown choice falls through to the stash branch.
choiceBranch_StashDefault(choice) ==
  IF choice \in {S_c, S_commit} THEN "commit" ELSE "stash"

\* the branch of ensureCleanGitWorkingTree the choice selects
choiceBranch(choice) ==
  IF choice \in {S_c, S_commit} THEN "commit"
  ELSE IF choice \in {S_s, S_stash} THEN "stash"
  ELSE "abort"

\* A slip: the stash branch returns { stashed: false }.
stashedAfter_NeverStashed(pc) == FALSE

\* the stashed flag ensureCleanGitWorkingTree returns when it returns from pc
stashedAfter(pc) == pc = "stashPush"

\* unstash === 'y' || unstash === 'yes'
wantsPop(unstash) == unstash \in {S_y, S_yes}

\* message || 'chore: release prep'
commitMessage(message) == IF message = <<>> THEN S_chorePrep ELSE message

\* The command a step spawns: [cmd, text], cmd the command and its fixed
\* arguments, text the argument computed at run time.
Cmd(cmd, text) == [cmd |-> cmd, text |-> text]

commandAt(pc, releaseType, message, nextVersion) ==
  CASE pc = "status" -> Cmd(<<"git", "status", "--porcelain">>, <<>>)
    [] pc = "preAdd" -> Cmd(<<"git", "add", "-A">>, <<>>)
    [] pc = "preCommit" -> Cmd(<<"git", "commit", "-m">>, commitMessage(message))
    [] pc = "stashPush" -> Cmd(<<"git", "stash", "push", "-u", "-m">>, S_autoStash)
    [] pc = "prepare" -> Cmd(<<"npm", "run", "prepare">>, <<>>)
    [] pc = "add" -> Cmd(<<"git", "add", "-A">>, <<>>)
    [] pc = "commit" -> Cmd(<<"git", "commit", "-m">>, S_choreRelease \o nextVersion)
    [] pc = "tag" -> Cmd(<<"git", "tag">>, S_v \o nextVersion)
    [] pc = "push" -> Cmd(<<"git", "push", "--follow-tags">>, <<>>)
    [] pc = "publish" -> Cmd(<<"npm", "publish">>, <<>>)
    [] pc = "stashPop" -> Cmd(<<"git", "stash", "pop">>, <<>>)
    [] pc = "npmVersion" -> Cmd(<<"npm", "version">>, releaseType)

\* the steps that await run(...) or runCapture(...)
RunSteps ==
  {"status", "preAdd", "preCommit", "stashPush", "prepare", "add", "commit",
   "tag", "push", "publish", "stashPop", "npmVersion"}

\* A slip: the tag is created before the commit.
afterRun_TagFirst(script, pc, stashed) ==
  IF script = "simple"
  THEN CASE pc = "prepare" -> "npmVersion"
         [] pc = "npmVersion" -> "push"
         [] pc = "push" -> "publish"
         [] pc = "publish" -> "done"
  ELSE CASE pc = "preAdd" -> "preCommit"
         [] pc = "preCommit" -> "setVersion"
         [] pc = "stashPush" -> "setVersion"
         [] pc = "prepare" -> "add"
         [] pc = "add" -> "tag"
         [] pc = "tag" -> "commit"
         [] pc = "commit" -> "push"
         [] pc = "push" -> "publish"
         [] pc = "publish" -> IF stashed THEN "askUnstash" ELSE "done"
         [] pc = "stashPop" -> "done"

\* the statement main reaches when the run(...) awaited at pc resolves
afterRun(script, pc, stashed) ==
  IF script = "simple"
  THEN CASE pc = "prepare" -> "npmVersion"
         [] pc = "npmVersion" -> "push"
         [] pc = "push" -> "publish"
         [] pc = "publish" -> "done"
  ELSE CASE pc = "preAdd" -> "preCommit"
         [] pc = "preCommit" -> "setVersion"
         [] pc = "stashPush" -> "setVersion"
         [] pc = "prepare" -> "add"
         [] pc = "add" -> "commit"
         [] pc = "commit" -> "tag"
         [] pc = "tag" -> "push"
         [] pc = "push" -> "publish"
         [] pc = "publish" -> IF stashed THEN "askUnstash" ELSE "done"
         [] pc = "stashPop" -> "done"

\* A slip: a failure after the stash goes on to the pop question.
afterFailure_OfferPop(script, pc, stashed) ==
  IF stashed /\ pc # "stashPop" THEN "askUnstash" ELSE "failed"

\* A slip: a failed build is ignored and the release goes on.
afterFailure_IgnoreBuild(script, pc, stashed) ==
  IF pc = "prepare" THEN afterRun(script, pc, stashed) ELSE "failed"

\* the statement main reaches when the run(...) awaited at pc rejects: the
\* error leaves main through finally and reaches main().catch
afterFailure(script, pc, stashed) == "failed"

\* pkg.version as bumpVersionString receives it: String(version ?? '0.0.0')
\* is applied there, so null counts as missing and an object is rendered.
versionArgument(pkg) ==
  LET v == Get(pkg, K_version)
  IN  IF IsNullish(v) THEN <<>>
      ELSE IF v[1].t = "obj" THEN <<S_objectObject>>
      ELSE <<v[1].s>>

(***************************************************************************)
(* The package.json mutators of the scaffold: index.ts ("src") and the     *)
(* compiled tree ("dist"), which differ in their default scripts.          *)
(***************************************************************************)
\* resolveCliCommand(bin, fallback)
resolveCliCommand(bin, fallback) ==
  IF ~IsTruthy(bin) THEN fallback
  ELSE IF bin[1].t = "str" THEN fallback
  ELSE IF bin[1].e = <<>> THEN fallback
  ELSE bin[1].e[1].k

\* loadPackageMetadata: the fields ensurePackageJsonSetup reads
loadPackageMetadata(file) ==
  LET pkg == JSON_parse(file)
      nameV == Get(pkg, K_name)
      name == IF IsNullish(nameV) THEN S_myPackage ELSE nameV[1].s
  IN  [name |-> name, cliCommand |-> resolveCliCommand(Get(pkg, K_bin), name)]

Default(k, v) == [k |-> k, v |-> StrVal(v)]

\* the scripts ensurePackageJsonSetup adds when missing, in its order
scriptDefaults(variant) ==
  << Default(K_clean, S_rmDist), Default(K_build, S_tsc),
     Default(K_prepare, S_npmRunBuild), Default(K_prettier, S_prettierCmd),
     Default(K_lint, S_eslint), Default(K_test, S_testCmd) >> \o
  (IF variant = "src"
   THEN << Default(K_publish, S_tsNode) >>
   ELSE << Default(K_release, S_releaseCmd), Default(K_version, S_tsNode) >>)

\* if (!pkg.scripts.k) pkg.scripts.k = v, for each default in turn
RECURSIVE ensureScripts(_, _)
ensureScripts(scripts, defaults) ==
  IF defaults = <<>> THEN scripts
  ELSE ensureScripts(
         IF IsTruthy(Get(scripts, defaults[1].k)) THEN scripts
         ELSE Set(scripts, defaults[1].k, defaults[1].v),
         Tail(defaults))

\* pkg.scripts = pkg.scripts ?? {}
scriptsOrEmpty(pkg) ==
  IF IsNullish(Get(pkg, K_scripts)) THEN Set(pkg, K_scripts, ObjVal(<<>>)) ELSE pkg

\* pkg.k = pkg.k ?? v
setIfNullish(pkg, k, v) == IF IsNullish(Get(pkg, k)) THEN Set(pkg, k, StrVal(v)) ELSE pkg

\* the bin field after ensurePackageJsonSetup
ensureBin(pkg, binName) ==
  LET bin == Get(pkg, K_bin)
  IN  IF ~IsTruthy(bin) \/ bin[1].t = "str"
      THEN Set(pkg, K_bin, ObjVal(<<[k |-> binName, v |-> StrVal(S_indexTs)]>>))
      ELSE IF ~IsTruthy(Get(bin[1].e, binName))
      THEN Set(pkg, K_bin, ObjVal(Set(bin[1].e, binName, StrVal(S_indexTs))))
      ELSE pkg

\* the mutator of ensurePackageJsonSetup(meta)
setupMutator(pkg, meta, variant) ==
  LET p1 == setIfNullish(pkg, K_type, S_module)
      p2 == setIfNullish(p1, K_main, S_indexTs)
      nameV == Get(p2, K_name)
      binName == IF meta.cliCommand # <<>> THEN meta.cliCommand
                 ELSE IF IsTruthy(nameV) THEN nameV[1].s
                 ELSE S_myCli
      p3 == ensureBin(p2, binName)
      p4 == scriptsOrEmpty(p3)
      scripts == Get(p4, K_scripts)[1].e
  IN  Set(p4, K_scripts, ObjVal(ensureScripts(scripts, scriptDefaults(variant))))

\* `node ${normalizedScriptPath}` for scripts/update-version.mjs
hookCommand == S_node \o S_hookPath

\* A slip: the hook is prepended without looking for it first.
hookMissing_Always(existingHook) == TRUE

\* !existingHook.includes(hookCommand)
hookMissing(existingHook) == ~includes(existingHook, hookCommand)

\* the mutator of ensurePrepublishHook
hookMutator(pkg, variant) ==
  LET p1 == scriptsOrEmpty(pkg)
      scripts == Get(p1, K_scripts)[1].e
      existingV == Get(scripts, K_prepublishOnly)
      existingHook == IF IsNullish(existingV) THEN <<>> ELSE existingV[1].s
      s1 == IF hookMissing(existingHook)
            THEN Set(scripts, K_prepublishOnly,
                     StrVal(IF existingHook # <<>>
                            THEN hookCommand \o S_andAnd \o existingHook
                            ELSE hookCommand))
            ELSE scripts
      publishV == Get(s1, K_publish)
      s2 == IF variant = "src" /\ (~IsTruthy(publishV) \/ trim(publishV[1].s) = <<>>)
            THEN Set(s1, K_publish, StrVal(S_npmPublish))
            ELSE s1
  IN  Set(p1, K_scripts, ObjVal(s2))

\* editPackageJson(mutator) with the mutator's result given: parse, mutate,
\* JSON.stringify(pkg, null, 2) + '\n'
editPackageJson(mutated) == JSON_stringify(mutated)

(***************************************************************************)
(* State.                                                                  *)
(***************************************************************************)
VARIABLES
  script,      \* which release script runs: "release" or "simple"
  pc,          \* the statement of main (or of a callee) that runs next
  running,     \* TRUE while a spawned child process has not settled
  releaseType, \* main: const releaseType (optional)
  choice,      \* ensureCleanGitWorkingTree: const choice (optional)
  message,     \* ensureCleanGitWorkingTree: const message (optional)
  unstash,     \* main: const unstash (optional)
  stashed,     \* main: const { stashed } (optional)
  nextVersion, \* main: const nextVersion (optional)
  statusOut,   \* ensureCleanGitWorkingTree: const { stdout } (optional)
  pkgFile,     \* ../package.json on disk (optional)
  pkgFile0,    \* ../package.json as it was when the script started
  rlClosed,    \* rl.close() has run
  exitCode,    \* the exit code of the script's process (optional)
  hist,        \* what the script did, in order: questions, spawns, exits, file I/O
  bpc,         \* bump harness: "call" before, "done" after bumpVersionString
  bVersion,    \* bump harness: the version argument (optional string)
  bTriple,     \* bump harness: <<a, b, c>> when bVersion was formed as a.b.c
  bKind,       \* bump harness: the releaseType argument
  bResult,     \* bump harness: the returned string (optional)
  variant,     \* scaffold: "src" (index.ts) or "dist" (the compiled tree)
  ppc,         \* scaffold: "edit" while package.json edits may run
  pfile,       \* scaffold: ./package.json on disk
  pfile0,      \* scaffold: ./package.json before the first edit
  pmeta,       \* scaffold: const pkgMeta of the last setup (optional)
  plog,        \* scaffold: the edits applied, each with the file it wrote
  sopts,       \* scaffold driver: const options, and which build of it runs
  spc,         \* scaffold driver: the statement that runs next
  sfs,         \* scaffold driver: the generated files and folders on disk
  spkg,        \* scaffold driver: ./package.json on disk (optional)
  sruns,       \* scaffold driver: the disk at the start of each run
  rcall,       \* command runner: which function was called, with what
  rchild,      \* command runner: the child's phase and its exit code
  rbuf,        \* command runner: let stdout, let stderr of runCapture
  rpromise     \* command runner: the promise the call returned

releaseVars ==
  <<script, pc, running, releaseType, choice, message, unstash, stashed,
    nextVersion, statusOut, pkgFile, pkgFile0, rlClosed, exitCode, hist>>

bumpVars == <<bpc, bVersion, bTriple, bKind, bResult>>

pkgVars == <<variant, ppc, pfile, pfile0, pmeta, plog>>

scaffoldVars == <<sopts, spc, sfs, spkg, sruns>>

runVars == <<rcall, rchild, rbuf, rpromise>>

vars == <<releaseVars, bumpVars, pkgVars, scaffoldVars, runVars>>

\* The release scripts before they start (the state the other harnesses keep).
ReleaseIdle ==
  /\ script = "release"
  /\ pc = "idle"
  /\ running = FALSE
  /\ releaseType = <<>>
  /\ choice = <<>>
  /\ message = <<>>
  /\ unstash = <<>>
  /\ stashed = <<>>
  /\ nextVersion = <<>>
  /\ statusOut = <<>>
  /\ pkgFile = <<>>
  /\ pkgFile0 = <<>>
  /\ rlClosed = FALSE
  /\ exitCode = <<>>
  /\ hist = <<>>

BumpIdle ==
  /\ bpc = "idle"
  /\ bVersion = <<>>
  /\ bTriple = <<>>
  /\ bKind = <<>>
  /\ bResult = <<>>

\* The command runner before a call.
RunIdle ==
  /\ rcall = <<>>
  /\ rchild = [phase |-> "idle", code |-> <<>>]
  /\ rbuf = [stdout |-> <<>>, stderr |-> <<>>]
  /\ rpromise = [state |-> "idle", error |-> <<>>, stdout |-> <<>>, stderr |-> <<>>]

\* The scaffold driver before it starts.
ScaffoldIdle ==
  /\ sopts = [force |-> FALSE, skipReadme |-> FALSE, variant |-> "src"]
  /\ spc = "idle"
  /\ sfs = <<>>
  /\ spkg = <<>>
  /\ sruns = <<>>

(***************************************************************************)
(* The scaffold's package.json edits as a state machine: the two setup     *)
(* steps of packageCreator, run and re-run in any order.                   *)
(***************************************************************************)
OptionalEntry(k, v) == IF v = <<>> THEN <<>> ELSE <<[k |-> k, v |-> v[1]]>>

S_cliJs == <<"c", "l", "i", ".", "j", "s">>
S_x == <<"x">>

StartNames == { <<>>, <<StrVal(<<"p">>)>>, <<StrVal(<<>>)>> }

StartTypes == { <<>>, <<StrVal(<<"c", "j", "s">>)>>, <<NullVal>> }

StartMains == { <<>>, <<StrVal(S_cliJs)>> }

StartBins ==
  { <<>>, <<StrVal(S_cliJs)>>, <<ObjVal(<<>>)>>,
    <<ObjVal(<<[k |-> <<"p">>, v |-> StrVal(S_cliJs)]>>)>>,
    <<ObjVal(<<[k |-> <<"q">>, v |-> StrVal(S_cliJs)]>>)>>,
    <<ObjVal(<<[k |-> <<"q">>, v |-> StrVal(<<>>)]>>)>> }

StartScripts ==
  { <<>>, <<NullVal>> } \cup
  { <<ObjVal(OptionalEntry(K_build, b) \o OptionalEntry(K_prepublishOnly, h)
             \o OptionalEntry(K_publish, p))>> :
      b \in { <<>>, <<StrVal(S_x)>> },
      h \in { <<>>, <<StrVal(S_x)>>, <<StrVal(S_x \o S_andAnd \o hookCommand)>> },
      p \in { <<>>, <<StrVal(<<" ">>)>>, <<StrVal(S_x)>> } }

StartFiles ==
  { [fmt |-> f,
     obj |-> OptionalEntry(K_name, n) \o OptionalEntry(K_scripts, s)
             \o OptionalEntry(K_bin, b) \o OptionalEntry(K_type, t)
             \o OptionalEntry(K_main, m)] :
      f \in {"pretty2", "other"}, n \in StartNames, s \in StartScripts,
      b \in StartBins, t \in StartTypes, m \in StartMains }

PkgIdle ==
  /\ variant = "src"
  /\ ppc = "idle"
  /\ pfile = [fmt |-> "pretty2", obj |-> <<>>]
  /\ pfile0 = pfile
  /\ pmeta = <<>>
  /\ plog = <<>>

PkgInit ==
  /\ ReleaseIdle
  /\ BumpIdle
  /\ ScaffoldIdle
  /\ RunIdle
  /\ variant \in {"src", "dist"}
  /\ ppc = "edit"
  /\ pfile \in StartFiles
  /\ pfile0 = pfile
  /\ pmeta = <<>>
  /\ plog = <<>>

\* packageCreator: loadPackageMetadata, then ensurePackageJsonSetup(pkgMeta);
\* a repeated application may also reuse the meta of the one before.
ensurePackageJsonSetup ==
  /\ ppc = "edit"
  /\ Len(plog) < MaxEdits
  /\ \E fresh \in BOOLEAN :
       LET meta == IF fresh \/ pmeta = <<>>
                   THEN loadPackageMetadata(pfile) ELSE pmeta[1]
           written == editPackageJson(setupMutator(JSON_parse(pfile), meta, variant))
       IN  /\ pfile' = written
           /\ pmeta' = <<meta>>
           /\ plog' = Append(plog, [op |-> "setup", file |-> written])
  /\ UNCHANGED <<variant, ppc, pfile0, releaseVars, bumpVars,
                 scaffoldVars, runVars>>

\* ensureVersionAutomation: ensurePrepublishHook('scripts/update-version.mjs')
ensurePrepublishHook ==
  /\ ppc = "edit"
  /\ Len(plog) < MaxEdits
  /\ LET written == editPackageJson(hookMutator(JSON_parse(pfile), variant))
     IN  /\ pfile' = written
         /\ plog' = Append(plog, [op |-> "hook", file |-> written])
  /\ UNCHANGED <<variant, ppc, pfile0, pmeta, releaseVars, bumpVars,
                 scaffoldVars, runVars>>

PkgNext == ensurePackageJsonSetup \/ ensurePrepublishHook

SpecPkg == PkgInit /\ [][PkgNext]_vars

(***************************************************************************)
(* The release scripts as a state machine.                                 *)
(***************************************************************************)
\* One entry of hist.
Ev(ev, cmd, text, code) == [ev |-> ev, cmd |-> cmd, text |-> text, code |-> code]

Question(name, raw) == Ev("question", <<name>>, raw, 0)
Spawned(c) == Ev("spawn", c.cmd, c.text, 0)
Exited(c, code) == Ev("exit", c.cmd, c.text, code)
SpawnError(c) == Ev("error", c.cmd, c.text, 0)
FileRead(ok) == Ev("readFile", <<"package.json">>, <<>>, IF ok THEN 0 ELSE 1)
FileWritten == Ev("writeFile", <<"package.json">>, <<>>, 0)
FileWriteFailed == Ev("writeFile", <<"package.json">>, <<>>, 1)

\* What the user may type.
RawReleaseTypes ==
  { <<>>, <<" ">>, S_patch, <<" ", "M", "i", "n", "o", "r", " ">>,
    <<"M", "A", "J", "O", "R">>, <<"b", "e", "t", "a">>,
    <<"p", "a", "t", "c", "h", "1">> }

RawChoices ==
  { <<>>, <<"a">>, <<"a", "b", "o", "r", "t">>, <<"x">>, <<"y", "e", "s">>,
    S_c, <<" ", "C", "o", "m", "m", "i", "t">>, S_s,
    <<"S", "T", "A", "S", "H", " ">>, <<"s", "t">> }

RawMessages == { <<>>, <<" ">>, <<"w", "i", "p">> }

RawUnstash ==
  { <<>>, S_y, <<" ", "Y", "e", "s", " ">>, <<"n">>, <<"N">>, <<"o", "k">> }

\* What git status --porcelain may print.
StatusOutputs == { <<>>, <<" ", "\n">>, <<" ", "M", " ", "a", "\n">> }

\* The package.json files a release may start from.
ReleaseVersions ==
  { <<>>, <<StrVal(<<"1", ".", "2", ".", "3">>)>>,
    <<StrVal(<<"0", ".", "0", ".", "9">>)>>, <<StrVal(<<"a", "b", "c">>)>>,
    <<NullVal>> }

ReleaseFiles ==
  { <<>>, <<[fmt |-> "invalid", obj |-> <<>>]>> } \cup
  { <<[fmt |-> f,
       obj |-> <<[k |-> K_name, v |-> StrVal(<<"p">>)]>> \o
               (IF v = <<>> THEN <<>> ELSE <<[k |-> K_version, v |-> v[1]]>>)]>> :
      f \in {"pretty2", "other"}, v \in ReleaseVersions }

\* A release script starts in a package whose package.json is one of files.
ReleaseStart(files) ==
  /\ script \in {"release", "simple"}
  /\ pc = "askType"
  /\ running = FALSE
  /\ releaseType = <<>>
  /\ choice = <<>>
  /\ message = <<>>
  /\ unstash = <<>>
  /\ stashed = <<>>
  /\ nextVersion = <<>>
  /\ statusOut = <<>>
  /\ pkgFile \in files
  /\ pkgFile0 = pkgFile
  /\ rlClosed = FALSE
  /\ exitCode = <<>>
  /\ hist = <<>>

ReleaseInit == ReleaseStart(ReleaseFiles)

\* The package.json files of a scaffolded project: ensureVersionAutomation
\* has installed the prepublishOnly hook.
ScaffoldedFiles ==
  { <<editPackageJson(hookMutator(JSON_parse(f[1]), build))>> :
      f \in { g \in ReleaseFiles : g # <<>> /\ CanParse(g[1]) },
      build \in {"src", "dist"} }

\* npm publish runs the prepublishOnly script of package.json before it
\* packs: with the hook installed, node scripts/update-version.mjs rewrites
\* the file with the version bumpVersion computes.
prepublishOnly(file) ==
  IF file = <<>> \/ ~CanParse(file[1]) THEN file
  ELSE
  LET pkg == JSON_parse(file[1])
      scripts == Get(pkg, K_scripts)
      hook == IF IsTruthy(scripts) /\ scripts[1].t = "obj"
              THEN Get(scripts[1].e, K_prepublishOnly) ELSE <<>>
      v == Get(pkg, K_version)
  IN  IF IsTruthy(hook) /\ includes(hook[1].s, hookCommand)
      THEN <<JSON_stringify(Set(pkg, K_version,
               StrVal(bumpVersion(IF IsNullish(v) THEN <<>> ELSE <<v[1].s>>))))>>
      ELSE file

\* main ends: finally { rl.close() }, then the process exits with 0, or
\* main().catch prints the error and calls process.exit(1).
Leave(to, events) ==
  /\ pc' = to
  /\ rlClosed' = TRUE
  /\ exitCode' = <<IF to = "done" THEN 0 ELSE 1>>
  /\ hist' = hist \o events \o <<Ev("close", <<"rl">>, <<>>, 0)>>

\* main goes on at the statement `to`.
GoOn(to, events) ==
  IF to \in {"done", "failed"}
  THEN Leave(to, events)
  ELSE /\ pc' = to
       /\ hist' = hist \o events
       /\ UNCHANGED <<rlClosed, exitCode>>

StashedFlag == stashed # <<>> /\ stashed[1]

CurrentCommand ==
  commandAt(pc, IF releaseType = <<>> THEN <<>> ELSE releaseType[1],
            IF message = <<>> THEN <<>> ELSE message[1],
            IF nextVersion = <<>> THEN <<>> ELSE nextVersion[1])

\* main: the release type question and its validation
main_AskReleaseType ==
  /\ pc = "askType"
  /\ \E answer \in RawReleaseTypes :
       LET raw == normalizeAnswer(answer)
           rt == defaultReleaseType(raw)
       IN  /\ releaseType' = <<rt>>
           /\ IF isValidReleaseType(rt)
              THEN GoOn(IF script = "release" THEN "status" ELSE "prepare",
                        <<Question("releaseType", answer)>>)
              ELSE Leave("failed", <<Question("releaseType", answer)>>)
  /\ UNCHANGED <<script, running, choice, message, unstash, stashed,
                 nextVersion, statusOut, pkgFile, pkgFile0, bumpVars, pkgVars,
                 scaffoldVars, runVars>>

\* A slip: the promise of the command before is not awaited.
mayStart_NotAwaited(childAlive) == TRUE

\* await: the next command is spawned once the one before has settled
mayStart(childAlive) == ~childAlive

\* run / runCapture: spawn(command, args)
run_Spawn ==
  /\ pc \in RunSteps
  /\ mayStart(running)
  /\ running' = TRUE
  /\ hist' = Append(hist, Spawned(CurrentCommand))
  /\ UNCHANGED <<script, pc, releaseType, choice, message, unstash, stashed,
                 nextVersion, statusOut, pkgFile, pkgFile0, rlClosed,
                 exitCode, bumpVars, pkgVars,
                 scaffoldVars, runVars>>

\* run: the child's 'exit' or 'error' event settles the promise; npm
\* publish has run the prepublishOnly script when it exits with 0, and may
\* have run it when it fails later
run_Settle ==
  /\ pc \in RunSteps \ {"status"}
  /\ running
  /\ running' = FALSE
  /\ \E outcome \in {"exit0", "exit1", "error"}, hookRan \in BOOLEAN :
       /\ hookRan => (pc = "publish" /\ outcome # "error")
       /\ (pc = "publish" /\ outcome = "exit0") => hookRan
       /\ pkgFile' = IF hookRan THEN prepublishOnly(pkgFile) ELSE pkgFile
       /\ IF outcome = "exit0"
          THEN /\ stashed' = IF pc \in {"preCommit", "stashPush"}
                             THEN <<stashedAfter(pc)>> ELSE stashed
               /\ GoOn(afterRun(script, pc, StashedFlag),
                       <<Exited(CurrentCommand, 0)>>)
          ELSE /\ stashed' = stashed
               /\ GoOn(afterFailure(script, pc, StashedFlag),
                       <<IF outcome = "error" THEN SpawnError(CurrentCommand)
                         ELSE Exited(CurrentCommand, 1)>>)
  /\ UNCHANGED <<script, releaseType, choice, message, unstash, nextVersion,
                 statusOut, pkgFile0, bumpVars, pkgVars,
                 scaffoldVars, runVars>>

\* ensureCleanGitWorkingTree: runCapture('git', ['status', '--porcelain'])
\* settles; a clean tree returns { stashed: false }
runCapture_Settle ==
  /\ pc = "status"
  /\ running
  /\ running' = FALSE
  /\ \/ \E stdout \in StatusOutputs :
          /\ statusOut' = <<stdout>>
          /\ IF isDirty(stdout)
             THEN /\ GoOn("askChoice", <<Exited(CurrentCommand, 0)>>)
                  /\ stashed' = stashed
             ELSE /\ GoOn("setVersion", <<Exited(CurrentCommand, 0)>>)
                  /\ stashed' = <<FALSE>>
     \/ \E outcome \in {"exit1", "error"} :
          /\ Leave("failed",
                   <<IF outcome = "error" THEN SpawnError(CurrentCommand)
                     ELSE Exited(CurrentCommand, 1)>>)
          /\ UNCHANGED <<statusOut, stashed>>
  /\ UNCHANGED <<script, releaseType, choice, message, unstash, nextVersion,
                 pkgFile, pkgFile0, bumpVars, pkgVars,
                 scaffoldVars, runVars>>

\* ensureCleanGitWorkingTree: the commit / stash / abort question
ensureCleanGitWorkingTree_AskChoice ==
  /\ pc = "askChoice"
  /\ \E answer \in RawChoices :
       LET c == normalizeAnswer(answer)
           branch == choiceBranch(c)
       IN  /\ choice' = <<c>>
           /\ GoOn(CASE branch = "commit" -> "askMessage"
                     [] branch = "stash" -> "stashPush"
                     [] OTHER -> "failed",
                   <<Question("choice", answer)>>)
  /\ UNCHANGED <<script, running, releaseType, message, unstash, stashed,
                 nextVersion, statusOut, pkgFile, pkgFile0, bumpVars, pkgVars,
                 scaffoldVars, runVars>>

\* ensureCleanGitWorkingTree: the commit message question
ensureCleanGitWorkingTree_AskMessage ==
  /\ pc = "askMessage"
  /\ \E answer \in RawMessages :
       /\ message' = <<trim(answer)>>
       /\ GoOn("preAdd", <<Question("message", answer)>>)
  /\ UNCHANGED <<script, running, releaseType, choice, unstash, stashed,
                 nextVersion, statusOut, pkgFile, pkgFile0, bumpVars, pkgVars,
                 scaffoldVars, runVars>>

\* setPackageVersion: read, parse, bump, write; readFile, JSON.parse and
\* writeFile may each throw
setPackageVersion ==
  /\ pc = "setVersion"
  /\ IF pkgFile = <<>>
     THEN /\ Leave("failed", <<FileRead(FALSE)>>)
          /\ UNCHANGED <<pkgFile, nextVersion>>
     ELSE IF ~CanParse(pkgFile[1])
     THEN /\ Leave("failed", <<FileRead(TRUE)>>)
          /\ UNCHANGED <<pkgFile, nextVersion>>
     ELSE LET pkg == JSON_parse(pkgFile[1])
              next == bumpVersionString(versionArgument(pkg), releaseType[1])
          IN  \E written \in BOOLEAN :
                IF written
                THEN /\ pkgFile' = <<JSON_stringify(Set(pkg, K_version, StrVal(next)))>>
                     /\ nextVersion' = <<next>>
                     /\ GoOn("prepare", <<FileRead(TRUE), FileWritten>>)
                ELSE /\ Leave("failed", <<FileRead(TRUE), FileWriteFailed>>)
                     /\ UNCHANGED <<pkgFile, nextVersion>>
  /\ UNCHANGED <<script, running, releaseType, choice, message, unstash,
                 stashed, statusOut, pkgFile0, bumpVars, pkgVars,
                 scaffoldVars, runVars>>

\* main: the pop-stash question after a successful publish
main_AskUnstash ==
  /\ pc = "askUnstash"
  /\ \E answer \in RawUnstash :
       LET u == normalizeAnswer(answer)
       IN  /\ unstash' = <<u>>
           /\ GoOn(IF wantsPop(u) THEN "stashPop" ELSE "done",
                   <<Question("unstash", answer)>>)
  /\ UNCHANGED <<script, running, releaseType, choice, message, stashed,
                 nextVersion, statusOut, pkgFile, pkgFile0, bumpVars, pkgVars,
                 scaffoldVars, runVars>>

Next ==
  \/ main_AskReleaseType
  \/ run_Spawn
  \/ run_Settle
  \/ runCapture_Settle
  \/ ensureCleanGitWorkingTree_AskChoice
  \/ ensureCleanGitWorkingTree_AskMessage
  \/ setPackageVersion
  \/ main_AskUnstash

Init == ReleaseInit /\ BumpIdle /\ PkgIdle /\ ScaffoldIdle /\ RunIdle

Spec == Init /\ [][Next]_vars

\* The release scripts in a scaffolded project.
InitScaffolded ==
  ReleaseStart(ScaffoldedFiles) /\ BumpIdle /\ PkgIdle /\ ScaffoldIdle /\ RunIdle

SpecScaffolded == InitScaffolded /\ [][Next]_vars

(***************************************************************************)
(* Inputs of the bump harness.                                             *)
(***************************************************************************)
VersionChars == {"0", "9", ".", "a", "-"}

RECURSIVE StringsUpTo(_, _)
StringsUpTo(chars, n) ==
  IF n = 0 THEN {<<>>}
  ELSE LET shorter == StringsUpTo(chars, n - 1)
       IN  shorter \cup {Append(s, c) : s \in shorter, c \in chars}

ExampleVersions ==
  { <<"a", "b", "c">>,
    <<"1", ".", "2">>,
    <<" ", "1", ".", " ", "2", ".", "3">>,
    <<"1", ".", "2", ".", "3", "-", "b", "e", "t", "a">>,
    <<"1", ".", "x", ".", "3">>,
    <<"-", "1", ".", "2", ".", "3">>,
    <<"1", ".", "2", ".", "3", ".", "4">> }

Dotted(a, b, c) ==
  NatToString(a) \o <<".">> \o NatToString(b) \o <<".">> \o NatToString(c)

BumpInit ==
  /\ ReleaseIdle
  /\ PkgIdle
  /\ ScaffoldIdle
  /\ RunIdle
  /\ bpc = "call"
  /\ bKind \in ReleaseKinds
  /\ bResult = <<>>
  /\ \/ \E a, b, c \in 0..MaxComponent :
          /\ bVersion = <<Dotted(a, b, c)>>
          /\ bTriple = <<a, b, c>>
     \/ /\ bVersion \in {<<>>} \cup
                        {<<s>> : s \in StringsUpTo(VersionChars, MaxVersionLen)
                                         \cup ExampleVersions}
        /\ bTriple = <<>>

CallBump ==
  /\ bpc = "call"
  /\ bResult' = <<bumpVersionString(bVersion, bKind)>>
  /\ bpc' = "done"
  /\ UNCHANGED <<bVersion, bTriple, bKind, releaseVars, pkgVars,
                 scaffoldVars, runVars>>

\* node scripts/update-version.mjs on a package.json with this version
CallBumpVersion ==
  /\ bpc = "call"
  /\ bResult' = <<bumpVersion(bVersion)>>
  /\ bpc' = "doneStandalone"
  /\ UNCHANGED <<bVersion, bTriple, bKind, releaseVars, pkgVars,
                 scaffoldVars, runVars>>

BumpNext == CallBump \/ CallBumpVersion

SpecBump == BumpInit /\ [][BumpNext]_vars

(***************************************************************************)
(* The scaffold driver as a state machine: index.ts ("src") and the        *)
(* compiled index.js ("dist").  A file's text is a sequence of tokens; a   *)
(* path of sfs holds <<>> when it is missing and <<text>> when it exists.  *)
(***************************************************************************)
MaxRuns == 2

GeneratedFiles ==
  { "tsconfig.json", "index.ts", "README.md", ".gitignore", ".npmignore",
    "utils/utils.ts", "scripts/update-version.mjs", "scripts/release.mjs" }

\* path.join(folderPath, fileName): the folder of a generated file
folderOf(path) ==
  CASE path = "utils/utils.ts" -> <<"utils">>
    [] path \in {"scripts/update-version.mjs", "scripts/release.mjs"} -> <<"scripts">>
    [] OTHER -> <<>>

\* the text each step hands to writeFile
templateOf(build, path, pkg) ==
  CASE path = "tsconfig.json" -> <<"tsconfig">>
    [] path = "index.ts" -> <<build, "index.ts">>
    [] path = "README.md" ->
         LET meta == loadPackageMetadata(pkg)
         IN  <<"README">> \o meta.name \o <<"$ ">> \o meta.cliCommand
    [] path = ".gitignore" -> <<"node_modules\n">>
    [] path = ".npmignore" -> <<>>
    [] path = "utils/utils.ts" ->
         IF build = "src" THEN <<>> ELSE <<"utilsTemplate">>
    [] path = "scripts/release.mjs" -> <<"releaseTemplate">>
    [] path = "scripts/update-version.mjs" -> <<"versionScriptTemplate">>

\* A slip: an existing file is overwritten without the flag.
shouldSkip_Never(force, exists) == FALSE

\* A slip: the flag is not looked at.
shouldSkip_IgnoreForce(force, exists) == exists

\* ensureFileWritten: !options.force && existsSync(filePath)
shouldSkip(force, exists) == ~force /\ exists

\* the statements of the entry point and of its callees, in order
driverSteps(build) ==
  IF build = "src"
  THEN << "utils/utils.ts", "ensurePackageJsonInitialized", "npm init",
          "checkTsConfig", "tsconfig.json", "index.ts", "loadPackageMetadata",
          "README.md", "ensurePackageJsonSetup", "ensureVersionAutomation",
          ".gitignore", ".npmignore" >>
  ELSE << "utils/utils.ts", "ensurePackageJsonInitialized", "npm init",
          "npm install -D typescript", "npm install -D ts-node",
          "npm install chalk chalk-animation",
          "checkTsConfig", "tsconfig.json", "index.ts", "loadPackageMetadata",
          "README.md", "scripts/release.mjs", "ensurePackageJsonSetup",
          "ensureVersionAutomation", ".gitignore", ".npmignore",
          "npm install" >>

\* the statement after `step`, "done" after the last one
afterStep(build, step) ==
  LET steps == driverSteps(build)
      i == CHOOSE j \in 1..Len(steps) : steps[j] = step
  IN  IF i = Len(steps) THEN "done" ELSE steps[i + 1]

\* runInteractiveCommand(command, args) of a step that spawns
scaffoldCommand(step) ==
  CASE step = "npm init" -> Cmd(<<"npm", "init">>, <<>>)
    [] step = "npm install -D typescript" ->
         Cmd(<<"npm", "install", "-D", "typescript">>, <<>>)
    [] step = "npm install -D ts-node" ->
         Cmd(<<"npm", "install", "-D", "ts-node">>, <<>>)
    [] step = "npm install chalk chalk-animation" ->
         Cmd(<<"npm", "install", "chalk", "chalk-animation">>, <<>>)
    [] step = "npm install" -> Cmd(<<"npm", "install">>, <<>>)

ChildSteps ==
  { "npm init", "npm install -D typescript", "npm install -D ts-node",
    "npm install chalk chalk-animation", "npm install" }

EnsureFileWrittenSteps ==
  { "tsconfig.json", "index.ts", "README.md", ".gitignore", ".npmignore" }

releaseRest ==
  <<script, pc, releaseType, choice, message, unstash, stashed, nextVersion,
    statusOut, pkgFile, pkgFile0, rlClosed>>

\* the driver goes on at the statement `to`; falling off the end exits with 0
sGo(to, events) ==
  /\ spc' = to
  /\ hist' = hist \o events
  /\ exitCode' = IF to = "done" THEN <<0>> ELSE exitCode

\* a rejected await: main().catch calls process.exit(1) in the compiled
\* build, and the unhandled rejection of the entry point of index.ts ends
\* the process with exit code 1 as well
sFail(events) ==
  /\ spc' = "failed"
  /\ hist' = hist \o events
  /\ exitCode' = <<1>>

WriteEvent(path, ok) == Ev("writeFile", <<path>>, <<>>, IF ok THEN 0 ELSE 1)

\* if (!existsSync(folder)) await mkdir(folder, { recursive: true }): the
\* disk afterwards and the events of the call
ensureFolder(fs, folder) ==
  IF fs[folder] = <<>>
  THEN [fs |-> [fs EXCEPT ![folder] = << <<"dir">> >>],
        events |-> <<Ev("mkdir", <<folder>>, <<>>, 0)>>]
  ELSE [fs |-> fs, events |-> <<>>]

\* A run starts in any directory: any subset of the generated files, each
\* with a text of the user's, in the folders they need; package.json is
\* missing, unreadable as JSON, or a descriptor of the user's.
ScaffoldInit ==
  /\ ReleaseIdle
  /\ BumpIdle
  /\ PkgIdle
  /\ RunIdle
  /\ sopts \in [force : BOOLEAN, skipReadme : BOOLEAN, variant : {"src", "dist"}]
  /\ spc = "utils/utils.ts"
  /\ sfs \in
       { [p \in GeneratedFiles \cup {"utils", "scripts"} |->
            IF p \in D
            THEN IF p \in GeneratedFiles THEN << <<"user">> >> ELSE << <<"dir">> >>
            ELSE <<>>] :
         D \in { E \in SUBSET (GeneratedFiles \cup {"utils", "scripts"}) :
                   \A f \in E \cap GeneratedFiles :
                      folderOf(f) = <<>> \/ folderOf(f)[1] \in E } }
  /\ spkg \in { <<>>, <<[fmt |-> "invalid", obj |-> <<>>]>>,
                <<[fmt |-> "other",
                   obj |-> <<[k |-> K_name, v |-> StrVal(<<"q">>)]>>]>> }
  /\ sruns = << [fs |-> sfs, pkg |-> spkg] >>

\* ensureUtils / ensureUtilsScaffold(folderPath, fileName, fileContents):
\* the folder is made when missing, the file is written when missing
ensureUtilsScaffold ==
  /\ spc \in {"utils/utils.ts", "scripts/release.mjs"}
  /\ LET folder == folderOf(spc)[1]
         made == ensureFolder(sfs, folder)
         to == afterStep(sopts.variant, spc)
     IN  IF sfs[spc] # <<>>
         THEN /\ sfs' = made.fs
              /\ sGo(to, made.events)
         ELSE \E ok \in BOOLEAN :
                IF ok
                THEN /\ sfs' = [made.fs EXCEPT
                                  ![spc] = <<templateOf(sopts.variant, spc, spkg)>>]
                     /\ sGo(to, made.events \o <<WriteEvent(spc, TRUE)>>)
                ELSE /\ sfs' = made.fs
                     /\ sFail(made.events \o <<WriteEvent(spc, FALSE)>>)
  /\ UNCHANGED <<sopts, spkg, sruns, running, releaseRest, bumpVars, pkgVars, runVars>>

\* ensurePackageJsonInitialized: if (!existsSync(targetPackageJson))
ensurePackageJsonInitialized ==
  /\ spc = "ensurePackageJsonInitialized"
  /\ sGo(IF spkg = <<>> THEN "npm init" ELSE "checkTsConfig", <<>>)
  /\ UNCHANGED <<sopts, sfs, spkg, sruns, running, releaseRest, bumpVars, pkgVars, runVars>>

\* runInteractiveCommand: spawn(command, args, { stdio: 'inherit' })
runInteractiveCommand_Spawn ==
  /\ spc \in ChildSteps
  /\ mayStart(running)
  /\ running' = TRUE
  /\ hist' = Append(hist, Spawned(scaffoldCommand(spc)))
  /\ UNCHANGED <<sopts, spc, sfs, spkg, sruns, exitCode, releaseRest, bumpVars,
                 pkgVars, runVars>>

\* runInteractiveCommand: the child's 'exit' or 'error' event settles the
\* promise; npm init that exits with 0 has written package.json
runInteractiveCommand_Settle ==
  /\ spc \in ChildSteps
  /\ running
  /\ running' = FALSE
  /\ \E outcome \in {"exit0", "exit1", "error"} :
       IF outcome = "exit0"
       THEN /\ spkg' =
                 IF spc = "npm init"
                 THEN <<[fmt |-> "pretty2",
                         obj |-> << [k |-> K_name, v |-> StrVal(<<"p">>)],
                                    [k |-> K_version, v |-> StrVal(S_000)] >>]>>
                 ELSE spkg
            /\ sGo(afterStep(sopts.variant, spc),
                   <<Exited(scaffoldCommand(spc), 0)>>)
       ELSE /\ spkg' = spkg
            /\ sFail(<<IF outcome = "error" THEN SpawnError(scaffoldCommand(spc))
                       ELSE Exited(scaffoldCommand(spc), 1)>>)
  /\ UNCHANGED <<sopts, sfs, sruns, releaseRest, bumpVars, pkgVars, runVars>>

\* packageCreator: if (existsSync(targetTsConfig)) { ...; return; }
packageCreator_CheckTsConfig ==
  /\ spc = "checkTsConfig"
  /\ sGo(IF sfs["tsconfig.json"] # <<>>
         THEN IF sopts.variant = "src" THEN "done" ELSE "npm install"
         ELSE "tsconfig.json", <<>>)
  /\ UNCHANGED <<sopts, sfs, spkg, sruns, running, releaseRest, bumpVars, pkgVars, runVars>>

\* ensureFileWritten(filePath, contents, label)
ensureFileWritten ==
  /\ spc \in EnsureFileWrittenSteps
  /\ LET to == afterStep(sopts.variant, spc)
     IN  IF shouldSkip(sopts.force, sfs[spc] # <<>>)
         THEN /\ sfs' = sfs
              /\ sGo(to, <<Ev("skip", <<spc>>, <<>>, 0)>>)
         ELSE \E ok \in BOOLEAN :
                IF ok
                THEN /\ sfs' = [sfs EXCEPT
                                  ![spc] = <<templateOf(sopts.variant, spc, spkg[1])>>]
                     /\ sGo(to, <<WriteEvent(spc, TRUE)>>)
                ELSE /\ sfs' = sfs
                     /\ sFail(<<WriteEvent(spc, FALSE)>>)
  /\ UNCHANGED <<sopts, spkg, sruns, running, releaseRest, bumpVars, pkgVars, runVars>>

\* packageCreator: const pkgMeta = await loadPackageMetadata(), then the
\* README step unless options.skipReadme
packageCreator_LoadMetadata ==
  /\ spc = "loadPackageMetadata"
  /\ IF spkg = <<>> \/ ~CanParse(spkg[1])
     THEN sFail(<<FileRead(spkg # <<>>)>>)
     ELSE sGo(IF sopts.skipReadme
              THEN afterStep(sopts.variant, "README.md") ELSE "README.md",
              <<FileRead(TRUE)>>)
  /\ UNCHANGED <<sopts, sfs, spkg, sruns, running, releaseRest, bumpVars, pkgVars, runVars>>

\* packageCreator: await ensurePackageJsonSetup(pkgMeta); package.json has
\* not changed since pkgMeta was loaded
packageCreator_Setup ==
  /\ spc = "ensurePackageJsonSetup"
  /\ spkg' = <<editPackageJson(setupMutator(JSON_parse(spkg[1]),
                                            loadPackageMetadata(spkg[1]),
                                            sopts.variant))>>
  /\ sGo(afterStep(sopts.variant, spc), <<FileRead(TRUE), FileWritten>>)
  /\ UNCHANGED <<sopts, sfs, sruns, running, releaseRest, bumpVars, pkgVars, runVars>>

\* ensureVersionAutomation: the scripts folder, the version script when it
\* is missing, and the prepublishOnly hook
ensureVersionAutomation ==
  /\ spc = "ensureVersionAutomation"
  /\ LET path == "scripts/update-version.mjs"
         made == ensureFolder(sfs, "scripts")
         mk == made.events
         hooked == <<editPackageJson(hookMutator(JSON_parse(spkg[1]),
                                                 sopts.variant))>>
         to == afterStep(sopts.variant, spc)
     IN  IF sfs[path] # <<>>
         THEN /\ sfs' = made.fs
              /\ spkg' = hooked
              /\ sGo(to, mk \o <<FileRead(TRUE), FileWritten>>)
         ELSE \E ok \in BOOLEAN :
                IF ok
                THEN /\ sfs' = [made.fs EXCEPT
                                  ![path] = <<templateOf(sopts.variant, path, spkg[1])>>]
                     /\ spkg' = hooked
                     /\ sGo(to, mk \o <<WriteEvent(path, TRUE), FileRead(TRUE),
                                        FileWritten>>)
                ELSE /\ sfs' = made.fs
                     /\ spkg' = spkg
                     /\ sFail(mk \o <<WriteEvent(path, FALSE)>>)
  /\ UNCHANGED <<sopts, sruns, running, releaseRest, bumpVars, pkgVars, runVars>>

\* the command is run again in the directory a completed run has left
main_RunAgain ==
  /\ spc = "done"
  /\ Len(sruns) < MaxRuns
  /\ spc' = "utils/utils.ts"
  /\ sruns' = Append(sruns, [fs |-> sfs, pkg |-> spkg])
  /\ exitCode' = <<>>
  /\ UNCHANGED <<sopts, sfs, spkg, running, hist, releaseRest, bumpVars, pkgVars, runVars>>

ScaffoldNext ==
  \/ ensureUtilsScaffold
  \/ ensurePackageJsonInitialized
  \/ runInteractiveCommand_Spawn
  \/ runInteractiveCommand_Settle
  \/ packageCreator_CheckTsConfig
  \/ ensureFileWritten
  \/ packageCreator_LoadMetadata
  \/ packageCreator_Setup
  \/ ensureVersionAutomation
  \/ main_RunAgain

SpecScaffold == ScaffoldInit /\ [][ScaffoldNext]_vars

(***************************************************************************)
(* The command runner: one call of run, runInteractiveCommand or           *)
(* runCapture, the events of its child and the promise it returned.        *)
(***************************************************************************)
MaxChunks == 2

S_exitedWithCode == <<" ", "e", "x", "i", "t", "e", "d", " ", "w", "i", "t", "h", " ", "c", "o", "d", "e", " ">>

\* `${code}`: the exit code, or null when a signal ended the child
codeText(code) == IF code = <<>> THEN <<"n", "u", "l", "l">> ELSE NatToString(code[1])

\* A slip: the exit code is left out of the message.
exitMessage_NoCode(fn, command, args, code, stderr) ==
  command \o <<" ">> \o join(args, " ") \o S_exitedWithCode \o
  (IF fn = "runCapture" THEN <<"\n">> \o stderr ELSE <<>>)

\* `${command} ${args.join(' ')} exited with code ${code}`, followed in
\* runCapture by `\n${stderr}`
exitMessage(fn, command, args, code, stderr) ==
  command \o <<" ">> \o join(args, " ") \o S_exitedWithCode \o codeText(code) \o
  (IF fn = "runCapture" THEN <<"\n">> \o stderr ELSE <<>>)

\* the message of the error spawn emits when the command cannot be started
launchMessage(command) == <<"s", "p", "a", "w", "n", " ">> \o command \o <<" ", "E", "N", "O", "E", "N", "T">>

\* resolve / reject: only the first call settles the promise
settle(promise, settled) ==
  IF promise.state = "pending" THEN settled ELSE promise

\* child.on('exit', (code) => ...)
onExit(call, code, buf) ==
  IF code = <<0>>
  THEN [state |-> "resolved", error |-> <<>>,
        stdout |-> IF call.fn = "runCapture" THEN buf.stdout ELSE <<>>,
        stderr |-> IF call.fn = "runCapture" THEN buf.stderr ELSE <<>>]
  ELSE [state |-> "rejected",
        error |-> exitMessage(call.fn, call.command, call.args, code, buf.stderr),
        stdout |-> <<>>, stderr |-> <<>>]

\* child.on('error', reject): the error of the event is passed on as it is
onError(error) ==
  [state |-> "rejected", error |-> error, stdout |-> <<>>, stderr |-> <<>>]

\* A call has just returned its pending promise: spawn has been called and
\* the listeners are attached.
RunInit ==
  /\ ReleaseIdle
  /\ BumpIdle
  /\ PkgIdle
  /\ ScaffoldIdle
  /\ rcall \in
       { [fn |-> f, command |-> c.command, args |-> c.args] :
           f \in {"run", "runInteractiveCommand", "runCapture"},
           c \in { [command |-> <<"g", "i", "t">>, args |-> << <<"s", "t", "a", "t", "u", "s">>, <<"-", "-", "p", "o", "r", "c", "e", "l", "a", "i", "n">> >>],
                    [command |-> <<"n", "p", "m">>, args |-> << <<"i", "n", "i", "t">> >>],
                    [command |-> <<"g", "i", "t">>, args |-> << <<"c", "o", "m", "m", "i", "t">>, <<"-", "m">>, <<"a", " ", "b">> >>] } }
  /\ rchild = [phase |-> "spawned", code |-> <<>>]
  /\ rbuf = [stdout |-> <<>>, stderr |-> <<>>]
  /\ rpromise = [state |-> "pending", error |-> <<>>, stdout |-> <<>>, stderr |-> <<>>]

\* child.stdout.on('data', ...) / child.stderr.on('data', ...): a chunk is
\* appended; the pipes may still deliver after the 'exit' event
runCapture_Data ==
  /\ rcall.fn = "runCapture"
  /\ rchild.phase \in {"spawned", "exited"}
  /\ Len(rbuf.stdout) + Len(rbuf.stderr) < MaxChunks
  /\ \E stream \in {"stdout", "stderr"}, chunk \in {"a", "\n"} :
       rbuf' = [rbuf EXCEPT ![stream] = Append(@, chunk)]
  /\ UNCHANGED <<rcall, rchild, rpromise, releaseVars, bumpVars, pkgVars,
                 scaffoldVars>>

\* the 'error' event of a child that could not be started
child_Error ==
  /\ rchild.phase = "spawned"
  /\ rbuf = [stdout |-> <<>>, stderr |-> <<>>]
  /\ rchild' = [phase |-> "failed", code |-> <<>>]
  /\ rpromise' = settle(rpromise, onError(launchMessage(rcall.command)))
  /\ UNCHANGED <<rcall, rbuf, releaseVars, bumpVars, pkgVars, scaffoldVars>>

\* the 'exit' event: once for a child that ran, with its exit code or with
\* null after a signal; it may also follow the 'error' event, never with 0
child_Exit ==
  /\ rchild.phase \in {"spawned", "failed"}
  /\ \E code \in { <<>>, <<0>>, <<1>>, <<128>> } :
       /\ rchild.phase = "failed" => code # <<0>>
       /\ rchild' = [phase |-> IF rchild.phase = "failed" THEN "failedExited"
                               ELSE "exited",
                     code |-> code]
       /\ rpromise' = settle(rpromise, onExit(rcall, code, rbuf))
  /\ UNCHANGED <<rcall, rbuf, releaseVars, bumpVars, pkgVars, scaffoldVars>>

RunNext == runCapture_Data \/ child_Error \/ child_Exit

SpecRun == RunInit /\ [][RunNext]_vars

(***************************************************************************)
(* Both programs: a run of a release script or a run of the scaffold       *)
(* driver.                                                                 *)
(***************************************************************************)
InitPrograms == Init \/ ScaffoldInit

NextPrograms == Next \/ ScaffoldNext

SpecPrograms == InitPrograms /\ [][NextPrograms]_vars

(***************************************************************************)
(* Claims about the release flow.                                          *)
(***************************************************************************)
Idx == 1..Len(hist)

IsSpawn(e) == e.ev = "spawn"

IsFailure(e) == e.ev = "error" \/ (e.ev = "exit" /\ e.code # 0)

Spawns == SelectSeq(hist, IsSpawn)

\* the spawns that follow position k of hist
SpawnsAfter(k) == SelectSeq(SubSeq(hist, k + 1, Len(hist)), IsSpawn)

GitStatus == Cmd(<<"git", "status", "--porcelain">>, <<>>)
GitAddAll == Cmd(<<"git", "add", "-A">>, <<>>)
GitStashPush == Cmd(<<"git", "stash", "push", "-u", "-m">>, S_autoStash)
GitStashPop == Cmd(<<"git", "stash", "pop">>, <<>>)
GitPush == Cmd(<<"git", "push", "--follow-tags">>, <<>>)
NpmPrepare == Cmd(<<"npm", "run", "prepare">>, <<>>)
NpmPublish == Cmd(<<"npm", "publish">>, <<>>)

\* the version package.json holds now
VersionOnDisk == Get(JSON_parse(pkgFile[1]), K_version)[1].s

\* git add, commit, tag, push and npm publish of a release of version v
ReleaseCommands(v) ==
  << GitAddAll,
     Cmd(<<"git", "commit", "-m">>, S_choreRelease \o v),
     Cmd(<<"git", "tag">>, S_v \o v),
     GitPush,
     NpmPublish >>

InvalidKindGiven == releaseType # <<>> /\ releaseType[1] \notin {S_patch, S_minor, S_major}

\* C1: in both release scripts a release kind other than patch, minor or
\* major (after trim and lower-casing, empty meaning patch) fails the run
\* before any command is spawned and before package.json is read or
\* written: the file is what it was when the script started.
C1_InvalidKindTouchesNothing ==
  InvalidKindGiven =>
    /\ pc = "failed"
    /\ exitCode = <<1>>
    /\ \A i \in Idx : hist[i].ev \in {"question", "close"}
    /\ pkgFile = pkgFile0

C1_Witness ==
  /\ script = "simple"
  /\ releaseType = <<<<"b", "e", "t", "a">>>>
  /\ pc = "failed"
  /\ pkgFile # <<>>

AbortChosen == choice # <<>> /\ choice[1] \notin {S_c, S_commit, S_s, S_stash}

\* C2: on a dirty tree an answer other than c, commit, s or stash (abort,
\* anything else, the empty default) fails the release, and after the
\* status query no command is invoked and package.json is not changed.
C2_AbortRunsNothing ==
  AbortChosen =>
    /\ pc = "failed"
    /\ exitCode = <<1>>
    /\ Spawns = <<Spawned(GitStatus)>>
    /\ \A i \in Idx : hist[i].ev \notin {"readFile", "writeFile"}
    /\ pkgFile = pkgFile0

C2_Witness ==
  /\ choice = <<<<>>>>
  /\ statusOut = <<<<" ", "M", " ", "a", "\n">>>>
  /\ pc = "failed"

\* C3: after the build step the release script runs git add -A, git commit
\* (message with the new version), git tag v<version>, git push
\* --follow-tags and npm publish in that order, each spawned right after
\* the previous one exited with 0; a failure ends the run: nothing is
\* spawned after it, nothing is retried, and the bumped package.json stays.
C3_ReleaseSequence ==
  \A k \in Idx :
    (script = "release" /\ hist[k] = Exited(NpmPrepare, 0)) =>
      LET sp == SpawnsAfter(k)
          expected == ReleaseCommands(VersionOnDisk)
      IN  /\ \A j \in 1..Len(sp) :
               /\ j <= 5 => sp[j] = Spawned(expected[j])
               /\ j = 6 => sp[j] = Spawned(GitStashPop)
               /\ j <= 6
          /\ includes(expected[2].text, nextVersion[1])
          /\ \A i \in (k + 1)..Len(hist) :
               /\ (IsSpawn(hist[i]) /\ hist[i] # Spawned(GitStashPop)) =>
                    (hist[i - 1].ev = "exit" /\ hist[i - 1].code = 0)
               /\ IsFailure(hist[i]) =>
                    /\ pc = "failed"
                    /\ SpawnsAfter(i) = <<>>
          /\ pkgFile =
               <<JSON_stringify(Set(JSON_parse(pkgFile0[1]), K_version,
                                    StrVal(nextVersion[1])))>>

C3_Witness ==
  /\ script = "release"
  /\ pc = "failed"
  /\ \E i \in Idx : hist[i] = Exited(GitPush, 1)
  /\ \E i \in Idx : hist[i] = Spawned(Cmd(<<"git", "tag">>,
                                          <<"v", "1", ".", "3", ".", "0">>))

BuildFailedAt(k) ==
  /\ script = "release"
  /\ IsFailure(hist[k])
  /\ hist[k].cmd = NpmPrepare.cmd

IsReleaseStepSpawn(e) ==
  /\ IsSpawn(e)
  /\ \/ e.cmd \in {<<"git", "add", "-A">>, <<"git", "commit", "-m">>,
                   <<"git", "tag">>, <<"git", "push", "--follow-tags">>,
                   <<"npm", "publish">>}

\* C4 as stated: package.json is written before npm run prepare is started,
\* and when the build fails no git add, git commit, git tag, git push or
\* npm publish is invoked anywhere in the run.
C4_NoGitCommandInRunOfFailedBuild ==
  /\ \A k \in Idx : hist[k] = Spawned(NpmPrepare) /\ script = "release" =>
       \E j \in 1..(k - 1) : hist[j] = FileWritten
  /\ \A k \in Idx : BuildFailedAt(k) =>
       \A i \in Idx : ~IsReleaseStepSpawn(hist[i])

\* C4 amended: package.json is written with the new version before npm run
\* prepare is started, and when the build fails no command is invoked after
\* it: git tag, git push and npm publish never run, and the only git add
\* and git commit of the run are the ones the user chose for a dirty tree,
\* which ran before the version bump.
C4_NothingAfterFailedBuild ==
  /\ \A k \in Idx : hist[k] = Spawned(NpmPrepare) /\ script = "release" =>
       /\ k > 1 /\ hist[k - 1] = FileWritten
       /\ VersionOnDisk = nextVersion[1]
       /\ nextVersion[1] =
            bumpVersionString(versionArgument(JSON_parse(pkgFile0[1])),
                              releaseType[1])
  /\ \A k \in Idx : BuildFailedAt(k) =>
       /\ pc = "failed"
       /\ SpawnsAfter(k) = <<>>
       /\ \A i \in Idx : IsReleaseStepSpawn(hist[i]) =>
            /\ hist[i].cmd \in {<<"git", "add", "-A">>, <<"git", "commit", "-m">>}
            /\ choice # <<>> /\ choice[1] \in {S_c, S_commit}
            /\ \E j \in (i + 1)..k : hist[j] = FileWritten

C4_Witness ==
  /\ script = "release"
  /\ choice = <<S_c>>
  /\ pc = "failed"
  /\ \E k \in Idx : hist[k] = Exited(NpmPrepare, 1)

CleanOutput ==
  /\ statusOut # <<>>
  /\ \A j \in 1..Len(statusOut[1]) : statusOut[1][j] \in {" ", "\n", "\t"}

\* C5: when git status --porcelain prints nothing or only white space the
\* release script asks no commit/stash/abort question, runs no pre-release
\* git add, commit or stash, has stashed = false, and what follows the
\* status query is the version bump of package.json.
C5_CleanTreeGoesToBump ==
  CleanOutput =>
    /\ stashed = <<FALSE>>
    /\ choice = <<>>
    /\ \A i \in Idx :
         ~(hist[i].ev = "question" /\ hist[i].cmd \in {<<"choice">>, <<"message">>})
    /\ \A i \in Idx : hist[i] = Exited(GitStatus, 0) =>
         /\ \A j \in 1..i : IsSpawn(hist[j]) => hist[j] = Spawned(GitStatus)
         /\ i < Len(hist) => hist[i + 1].ev = "readFile"
         /\ (i = Len(hist)) => pc = "setVersion"
    /\ \A i \in Idx : IsSpawn(hist[i]) =>
         hist[i].cmd \notin {<<"git", "stash", "push", "-u", "-m">>, <<"git", "stash", "pop">>}
    /\ Len(SelectSeq(hist, LAMBDA e : e = Spawned(GitAddAll))) <= 1

C5_Witness ==
  /\ statusOut = <<<<" ", "\n">>>>
  /\ pc = "prepare"
  /\ hist[Len(hist)] = FileWritten

\* C6: stashed is true exactly when the user chose stash on a dirty tree
\* and git stash push exited with 0.  The pop question is asked only with
\* stashed true and right after npm publish succeeded; git stash pop is
\* spawned only on the answer y or yes, and any other answer (the empty
\* default included) ends the run with the stash in place.
C6_StashFlagAndPop ==
  /\ stashed = <<TRUE>> <=> \E i \in Idx : hist[i] = Exited(GitStashPush, 0)
  /\ stashed = <<TRUE>> =>
       /\ choice # <<>> /\ choice[1] \in {S_s, S_stash}
       /\ statusOut # <<>> /\ \E j \in 1..Len(statusOut[1]) :
                                statusOut[1][j] \notin {" ", "\n", "\t"}
  /\ \A i \in Idx : (hist[i].ev = "question" /\ hist[i].cmd = <<"unstash">>) =>
       /\ stashed = <<TRUE>>
       /\ i > 1 /\ hist[i - 1] = Exited(NpmPublish, 0)
  /\ \A i \in Idx : hist[i] = Exited(NpmPublish, 0) /\ script = "release" =>
       (stashed = <<TRUE>> <=> (pc = "askUnstash" \/ unstash # <<>>))
  /\ \A i \in Idx : hist[i] = Spawned(GitStashPop) =>
       /\ i > 1 /\ hist[i - 1].ev = "question" /\ hist[i - 1].cmd = <<"unstash">>
       /\ unstash # <<>> /\ unstash[1] \in {S_y, S_yes}
  /\ (unstash # <<>> /\ unstash[1] \notin {S_y, S_yes}) =>
       /\ pc = "done"
       /\ \A i \in Idx : hist[i] # Spawned(GitStashPop)
       /\ hist[Len(hist) - 1].ev = "question"

C6_Witness ==
  /\ stashed = <<TRUE>>
  /\ unstash = <<<<>>>>
  /\ pc = "done"

(***************************************************************************)
(* Claims about bumpVersionString.                                         *)
(***************************************************************************)
S_130 == <<"1", ".", "3", ".", "0">>
S_0010 == <<"0", ".", "0", ".", "1", "0">>
S_300 == <<"3", ".", "0", ".", "0">>
S_001 == <<"0", ".", "0", ".", "1">>

\* C7: for a well-formed version a.b.c and a kind in {patch, minor, major}
\* bumpVersionString returns a.b.(c+1) for patch, a.(b+1).0 for minor and
\* (a+1).0.0 for major; 1.2.3/minor = 1.3.0, 0.0.9/patch = 0.0.10 and
\* 2.9.9/major = 3.0.0.
C7_BumpRule ==
  (bpc = "done" /\ bTriple # <<>>) =>
    /\ bKind = S_patch =>
         bResult = <<Dotted(bTriple[1], bTriple[2], bTriple[3] + 1)>>
    /\ bKind = S_minor => bResult = <<Dotted(bTriple[1], bTriple[2] + 1, 0)>>
    /\ bKind = S_major => bResult = <<Dotted(bTriple[1] + 1, 0, 0)>>
    /\ (bTriple = <<1, 2, 3>> /\ bKind = S_minor) => bResult = <<S_130>>
    /\ (bTriple = <<0, 0, 9>> /\ bKind = S_patch) => bResult = <<S_0010>>
    /\ (bTriple = <<2, 9, 9>> /\ bKind = S_major) => bResult = <<S_300>>

C7_Witness ==
  /\ bpc = "done"
  /\ bTriple = <<2, 9, 9>>
  /\ bKind = S_major
  /\ bResult = <<S_300>>

\* A string that is three non-negative decimal integers joined by dots.
IsVersionTriple(s) ==
  LET parts == split(s, ".")
  IN  /\ Len(parts) = 3
      /\ \A i \in 1..3 :
           /\ parts[i] # <<>>
           /\ \A j \in 1..Len(parts[i]) : IsDigit(parts[i][j])

\* C8: whatever the starting version (absent, non-numeric or incomplete),
\* the result of bumpVersionString is three non-negative integers joined by
\* dots, without NaN, and bump('abc', 'patch') = '0.0.1'.
C8_ResultIsVersionTriple ==
  bpc = "done" =>
    /\ IsVersionTriple(bResult[1])
    /\ (bVersion = <<<<"a", "b", "c">>>> /\ bKind = S_patch) => bResult = <<S_001>>

(***************************************************************************)
(* Claims about the package.json mutators.                                 *)
(***************************************************************************)
\* the file on disk before edit number i
FileBefore(i) == IF i = 1 THEN pfile0 ELSE plog[i - 1].file

\* C9: ensurePackageJsonSetup and ensurePrepublishHook, run through
\* editPackageJson, are idempotent: once one of them has been applied,
\* applying it again writes a file identical to the one it found, so twice
\* gives the same bytes as once.
C9_MutatorsIdempotent ==
  \A i \in 1..Len(plog) : \A j \in (i + 1)..Len(plog) :
    plog[i].op = plog[j].op => plog[j].file = FileBefore(j)

C9_Witness ==
  /\ Len(plog) = 2
  /\ plog[1].op = "hook"
  /\ plog[2].op = "hook"
  /\ plog[1].file # pfile0
  /\ plog[2].file = plog[1].file
  /\ IsTruthy(Get(pfile0.obj, K_scripts))
  /\ Get(Get(pfile0.obj, K_scripts)[1].e, K_prepublishOnly) = <<StrVal(S_x)>>

\* a value the user set: a string that is not blank, or a mapping
IsUserSet(x) ==
  /\ x # <<>>
  /\ \/ x[1].t = "obj"
     \/ x[1].t = "str" /\ trim(x[1].s) # <<>>

\* every user-set entry of the mapping under k in `before` has the same
\* value in `after`
EntriesKept(before, after, k) ==
  LET b == Get(before, k)
      a == Get(after, k)
  IN  (b # <<>> /\ b[1].t = "obj") =>
        \A i \in 1..Len(b[1].e) :
          IsUserSet(<<b[1].e[i].v>>) =>
            /\ a # <<>>
            /\ a[1].t = "obj"
            /\ Get(a[1].e, b[1].e[i].k) = <<b[1].e[i].v>>

\* every user-set string under k in `before` is the value under k in `after`
StringKept(before, after, k) ==
  LET b == Get(before, k)
  IN  (IsUserSet(b) /\ b[1].t = "str") => Get(after, k) = b

\* C10: the values package.json already holds under type, main, bin (as a
\* string or as a mapping) and under every script, prepublishOnly and
\* publish included, are the same after ensurePackageJsonSetup and
\* ensurePrepublishHook as before.
C10_UserValuesKept ==
  \A i \in 1..Len(plog) :
    LET before == pfile0.obj
        after == plog[i].file.obj
    IN  /\ StringKept(before, after, K_type)
        /\ StringKept(before, after, K_main)
        /\ StringKept(before, after, K_bin)
        /\ EntriesKept(before, after, K_bin)
        /\ EntriesKept(before, after, K_scripts)

(***************************************************************************)
(* Claims about the scaffold driver.                                       *)
(***************************************************************************)
LastEvent == hist[Len(hist)]

\* the disk the current run of the driver started from
RunStart == sruns[Len(sruns)]

\* the driver is about to call ensureFileWritten for the path spc
AtEnsureFileWritten == spc \in EnsureFileWrittenSteps

\* C11: when the force flag is not set and the target file exists, a call of
\* ensureFileWritten writes nothing, leaves every file as it was, reports
\* the skip and returns normally to the statement after the call.
C11_SkipLeavesFileUnchanged ==
  [][(AtEnsureFileWritten /\ ~sopts.force /\ sfs[spc] # <<>>) =>
       /\ sfs' = sfs
       /\ spkg' = spkg
       /\ hist' = Append(hist, Ev("skip", <<spc>>, <<>>, 0))
       /\ spc' = afterStep(sopts.variant, spc)
       /\ exitCode' # <<1>>]_vars

C11_Witness ==
  /\ spc = "loadPackageMetadata"
  /\ ~sopts.force
  /\ hist # <<>>
  /\ LastEvent = Ev("skip", <<"index.ts">>, <<>>, 0)
  /\ sfs["index.ts"] = << <<"user">> >>

\* C12: when the force flag is set, a call of ensureFileWritten writes: if
\* the write succeeds the target holds the given text whether it was
\* missing or present before, and otherwise the call fails with the write
\* error and is not a skip.  A missing file is written whatever the flag.
C12_ForceAlwaysWrites ==
  [][(AtEnsureFileWritten /\ (sopts.force \/ sfs[spc] = <<>>)) =>
       \/ /\ sfs' = [sfs EXCEPT ![spc] = <<templateOf(sopts.variant, spc, spkg[1])>>]
          /\ hist' = Append(hist, WriteEvent(spc, TRUE))
          /\ spc' = afterStep(sopts.variant, spc)
       \/ /\ sfs' = sfs
          /\ hist' = Append(hist, WriteEvent(spc, FALSE))
          /\ spc' = "failed"]_vars

C12_Witness ==
  /\ spc = "loadPackageMetadata"
  /\ sopts.force
  /\ hist # <<>>
  /\ LastEvent = WriteEvent("index.ts", TRUE)
  /\ RunStart.fs["index.ts"] = << <<"user">> >>
  /\ sfs["index.ts"] = <<templateOf(sopts.variant, "index.ts", spkg[1])>>

\* the files the running build of the driver generates
GeneratedHere ==
  IF sopts.variant = "src"
  THEN GeneratedFiles \ {"scripts/release.mjs"} ELSE GeneratedFiles

\* the file f holds the text the driver writes for it
HoldsTemplate(f) ==
  /\ sfs[f] # <<>>
  /\ IF f = "README.md"
     THEN sfs[f][1] # <<>> /\ Head(sfs[f][1]) = "README"
     ELSE sfs[f] = <<templateOf(sopts.variant, f, spkg[1])>>

\* the current run has completed without error
RunCompleted == spc = "done"

\* C13: every file-writing step respects the force flag: when a run with
\* --force completes without error, every generated file that existed
\* before the run holds the template text.
C13_ForceOverwritesEveryFile ==
  (RunCompleted /\ sopts.force) =>
     \A f \in GeneratedHere :
        (RunStart.fs[f] # <<>> /\ ~(f = "README.md" /\ sopts.skipReadme))
           => HoldsTemplate(f)

(***************************************************************************)
(* Claims about the command runner.                                        *)
(***************************************************************************)
\* t is what the listeners had accumulated of `all` at some moment
IsPrefix(t, all) == Len(t) <= Len(all) /\ t = SubSeq(all, 1, Len(t))

EndsWith(s, t) == Len(t) <= Len(s) /\ SubSeq(s, Len(s) - Len(t) + 1, Len(s)) = t

ChildRanAndExited == rchild.phase = "exited"

LaunchFailed == rchild.phase \in {"failed", "failedExited"}

\* C14: the promise of run, runInteractiveCommand and runCapture is resolved
\* exactly when the child exited with status 0, and runCapture then yields
\* the stdout and stderr accumulated so far; any other exit rejects it with
\* an error whose message carries the command, every argument and the exit
\* code and, for runCapture, ends with the captured stderr verbatim; a
\* failed launch rejects it with the launch error itself, which is not an
\* "exited with code" error.
C14_RunnerSettlement ==
  rpromise.state # "idle" =>
    /\ rpromise.state = "pending" <=> rchild.phase = "spawned"
    /\ rpromise.state = "resolved" <=> (ChildRanAndExited /\ rchild.code = <<0>>)
    /\ (rpromise.state = "resolved" /\ rcall.fn = "runCapture") =>
          /\ IsPrefix(rpromise.stdout, rbuf.stdout)
          /\ IsPrefix(rpromise.stderr, rbuf.stderr)
    /\ (ChildRanAndExited /\ rchild.code # <<0>>) =>
          /\ rpromise.state = "rejected"
          /\ includes(rpromise.error, rcall.command)
          /\ \A k \in 1..Len(rcall.args) : includes(rpromise.error, rcall.args[k])
          /\ includes(rpromise.error, S_exitedWithCode \o codeText(rchild.code))
          /\ rcall.fn = "runCapture" =>
                \E k \in 0..Len(rbuf.stderr) :
                   EndsWith(rpromise.error,
                            codeText(rchild.code) \o <<"\n">> \o SubSeq(rbuf.stderr, 1, k))
    /\ LaunchFailed =>
          /\ rpromise.state = "rejected"
          /\ rpromise.error = launchMessage(rcall.command)
          /\ ~includes(rpromise.error, S_exitedWithCode)

C14_Witness ==
  /\ rpromise.state = "rejected"
  /\ rcall.fn = "runCapture"
  /\ rchild = [phase |-> "exited", code |-> <<128>>]
  /\ rbuf.stderr = <<"a", "\n">>
  /\ EndsWith(rpromise.error, <<"1", "2", "8", "\n", "a", "\n">>)

(***************************************************************************)
(* Claims about whole runs of the scaffold driver.                         *)
(***************************************************************************)
\* every generated file that existed when the run started is as it was
ExistingFilesKept ==
  \A f \in GeneratedFiles : RunStart.fs[f] # <<>> => sfs[f] = RunStart.fs[f]

\* C15: a run without flags that completes without error leaves README.md
\* present and every generated file that existed unchanged; a completed
\* run with --skip-readme leaves README.md as it was, missing or not, and
\* has still produced the other files of the scaffold.
C15_ReadmePresentAndFilesKept ==
  RunCompleted =>
    /\ (~sopts.force /\ ~sopts.skipReadme) =>
          sfs["README.md"] # <<>> /\ ExistingFilesKept
    /\ sopts.skipReadme =>
          /\ sfs["README.md"] = RunStart.fs["README.md"]
          /\ \A f \in GeneratedHere \ {"README.md"} : sfs[f] # <<>>

\* package.json carries the defaults of ensurePackageJsonSetup and the hook
DescriptorDefaultsInPlace ==
  /\ spkg # <<>>
  /\ CanParse(spkg[1])
  /\ \A k \in {K_type, K_main, K_bin, K_scripts} :
        IsTruthy(Get(JSON_parse(spkg[1]), k))
  /\ IsTruthy(Get(Get(JSON_parse(spkg[1]), K_scripts)[1].e, K_prepublishOnly))

\* C16: every step of the driver can be run again on its own: from any
\* directory in which some artefacts exist and others are missing, a run
\* without flags that completes has created every missing artefact and
\* left the existing files unchanged, and a second run changes nothing.
C16_RerunCompletesTheScaffold ==
  (RunCompleted /\ ~sopts.force /\ ~sopts.skipReadme) =>
    /\ \A f \in GeneratedHere : sfs[f] # <<>>
    /\ DescriptorDefaultsInPlace
    /\ ExistingFilesKept
    /\ Len(sruns) > 1 => (sfs = RunStart.fs /\ spkg = RunStart.pkg)

(***************************************************************************)
(* Claims about the order of steps.                                        *)
(***************************************************************************)
IsSettle(e) == e.ev \in {"exit", "error"}

\* C17: the release scripts and the scaffold driver are strictly
\* sequential: at most one child process is alive at any time, and while a
\* child is alive nothing else is started: every spawn is directly followed
\* by the settling of that same command, before any file is read or
\* written, any question is asked or any other command is spawned.
C17_OneChildAtATime ==
  /\ running <=> (hist # <<>> /\ IsSpawn(LastEvent))
  /\ \A i \in Idx :
        (IsSpawn(hist[i]) /\ i < Len(hist)) =>
           /\ IsSettle(hist[i + 1])
           /\ hist[i + 1].cmd = hist[i].cmd
           /\ hist[i + 1].text = hist[i].text
  /\ \A i \in Idx : IsSettle(hist[i]) => (i > 1 /\ IsSpawn(hist[i - 1]))

C17_Witness ==
  /\ spc = "npm install"
  /\ running
  /\ Len(Spawns) = 5
  /\ \E i \in Idx : hist[i] = WriteEvent(".gitignore", TRUE)

(***************************************************************************)
(* Claims about the standalone version bump.                               *)
(***************************************************************************)
S_NaN == <<"N", "a", "N">>

\* C18: for every starting version the standalone bumpVersion writes three
\* non-negative integers joined by dots in which NaN never appears: major
\* and minor are kept, patch becomes patch + 1, and an absent version
\* counts as 0.0.0.
C18_StandaloneBumpIsTriple ==
  bpc = "doneStandalone" =>
    /\ IsVersionTriple(bResult[1])
    /\ ~includes(bResult[1], S_NaN)
    /\ bVersion = <<>> => bResult[1] = S_001
    /\ bTriple # <<>> =>
          bResult[1] = Dotted(bTriple[1], bTriple[2], bTriple[3] + 1)

(***************************************************************************)
(* Claims about a release of a scaffolded project.                         *)
(***************************************************************************)
\* C19: one successful release changes the version by exactly one
\* application of the bump rule: once npm publish has succeeded, the
\* version in package.json is the version of the release commit message
\* and of the tag, which is the starting version bumped once.
C19_PublishedVersionIsTaggedVersion ==
  (script = "release" /\ \E i \in Idx : hist[i] = Exited(NpmPublish, 0)) =>
    /\ VersionOnDisk = nextVersion[1]
    /\ VersionOnDisk =
         bumpVersionString(versionArgument(JSON_parse(pkgFile0[1])), releaseType[1])
    /\ \E i \in Idx :
         hist[i] = Spawned(Cmd(<<"git", "commit", "-m">>,
                               S_choreRelease \o VersionOnDisk))
    /\ \E i \in Idx :
         hist[i] = Spawned(Cmd(<<"git", "tag">>, S_v \o VersionOnDisk))

(***************************************************************************)
(* Claims about the ways out of the release script.                        *)
(***************************************************************************)
\* a release step other than git stash pop has failed
ReleaseStepFailed ==
  \E i \in Idx :
     \/ IsFailure(hist[i]) /\ hist[i] \notin {Exited(GitStashPop, 1), SpawnError(GitStashPop)}
     \/ hist[i].ev \in {"readFile", "writeFile"} /\ hist[i].code # 0

\* C20: when the user chose stash and a later release step fails (the
\* version write, the build, git add, commit, tag or push, or npm publish),
\* the run ends with exit code 1 without asking the pop question and
\* without git stash pop; and the readline interface is closed on every
\* way out of main, successful or not, and only there.
C20_FailureLeavesStashAndClosesReadline ==
  /\ (stashed = <<TRUE>> /\ ReleaseStepFailed) =>
        /\ pc = "failed"
        /\ exitCode = <<1>>
        /\ \A i \in Idx :
              /\ hist[i] # Spawned(GitStashPop)
              /\ ~(hist[i].ev = "question" /\ hist[i].cmd = <<"unstash">>)
  /\ pc \in {"done", "failed"} <=> rlClosed
  /\ rlClosed =>
        /\ LastEvent = Ev("close", <<"rl">>, <<>>, 0)
        /\ \A i \in 1..(Len(hist) - 1) : hist[i].ev # "close"
        /\ exitCode = <<IF pc = "done" THEN 0 ELSE 1>>

C20_Witness ==
  /\ script = "release"
  /\ stashed = <<TRUE>>
  /\ pc = "failed"
  /\ rlClosed
  /\ \E i \in Idx : hist[i] = FileWriteFailed

=============================================================================
